---------------------------- MODULE Spec2Model ----------------------------
(***************************************************************************)
(* The CSID tracking web application (script-web-track.py): the per-session *)
(* workbook store, the upload / lookup / reset request handlers running on  *)
(* concurrent server threads, and the pure routines they use (column D      *)
(* extraction, find_in_all_sheets, the bulk CSID split).                    *)
(*                                                                          *)
(* Python strings are modelled as sequences of one-character strings, so    *)
(* that strip, split, join, lower and endswith are computed, not assumed.   *)
(* Python values (spreadsheet cells, JSON values) are tagged records.       *)
(***************************************************************************)
EXTENDS Integers, Sequences, FiniteSets, TLC

(***************************************************************************)
(* Bounds of the model.                                                    *)
(***************************************************************************)
\* datetime.now() is called at most MaxTime times (one per stored upload).
MaxTime == 2
\* Longest request text drawn for the bulk split (SpecSplit).
MaxLen == 4

(***************************************************************************)
(* Python values and strings.                                              *)
(***************************************************************************)
\* A str object with characters s.
StrV(s) == [type |-> "str", s |-> s, n |-> 0]
\* An int object.
IntV(n) == [type |-> "int", s |-> <<>>, n |-> n]
\* A float object holding the whole number n (numpy float64).
FloatV(n) == [type |-> "float", s |-> <<>>, n |-> n]
\* The missing value (numpy.nan): an empty spreadsheet cell.
NaN == [type |-> "nan", s |-> <<>>, n |-> 0]

Digits == <<"0", "1", "2", "3", "4", "5", "6", "7", "8", "9">>

RECURSIVE IntToStr(_)
\* str(n) for a natural number n: its decimal numeral.
IntToStr(n) ==
    IF n < 10 THEN <<Digits[n + 1]>>
    ELSE IntToStr(n \div 10) \o <<Digits[(n % 10) + 1]>>

NanStr == <<"n", "a", "n">>

\* str(v): a str is itself, an int its numeral, a whole float "<n>.0",
\* the missing value "nan".
PyStr(v) ==
    CASE v.type = "str" -> v.s
      [] v.type = "int" -> IntToStr(v.n)
      [] v.type = "float" -> IntToStr(v.n) \o <<".", "0">>
      [] OTHER -> NanStr

\* Characters str.strip() and str.split() treat as whitespace, and that the
\* regular expression class \s matches.
Whitespace == {" ", "\n", "\t", "\r"}

RECURSIVE LStrip(_, _)
LStrip(s, chars) ==
    IF s # <<>> /\ Head(s) \in chars THEN LStrip(Tail(s), chars) ELSE s

RECURSIVE RStrip(_, _)
RStrip(s, chars) ==
    IF s # <<>> /\ s[Len(s)] \in chars
    THEN RStrip(SubSeq(s, 1, Len(s) - 1), chars)
    ELSE s

\* s.strip(chars)
StripChars(s, chars) == RStrip(LStrip(s, chars), chars)

\* s.strip()
Strip(s) == StripChars(s, Whitespace)

RECURSIVE ReSplit(_, _)
\* re.split('[delims]+', s): the fields between maximal runs of delimiter
\* characters; a leading or trailing run leaves an empty first or last field.
ReSplit(s, delims) ==
    IF s = <<>> THEN << <<>> >>
    ELSE LET rest == ReSplit(Tail(s), delims)
         IN  IF Head(s) \in delims
             THEN IF Tail(s) # <<>> /\ Head(Tail(s)) \in delims
                  THEN rest
                  ELSE << <<>> >> \o rest
             ELSE << <<Head(s)>> \o Head(rest) >> \o Tail(rest)

RECURSIVE Join(_, _)
\* sep.join(parts)
Join(parts, sep) ==
    IF parts = <<>> THEN <<>>
    ELSE IF Len(parts) = 1 THEN Head(parts)
    ELSE Head(parts) \o sep \o Join(Tail(parts), sep)

LowerChar(c) ==
    CASE c = "A" -> "a" [] c = "B" -> "b" [] c = "L" -> "l"
      [] c = "S" -> "s" [] c = "X" -> "x" [] OTHER -> c

\* s.lower()
Lower(s) == [i \in 1..Len(s) |-> LowerChar(s[i])]

\* s.endswith(suffix)
EndsWith(s, suffix) ==
    /\ Len(s) >= Len(suffix)
    /\ SubSeq(s, Len(s) - Len(suffix) + 1, Len(s)) = suffix

IsNonEmpty(s) == s # <<>>

\* werkzeug's secure_filename on the characters used here: whitespace runs
\* become "_", then leading and trailing "." and "_" are stripped.
secure_filename(s) ==
    StripChars(Join(SelectSeq(ReSplit(s, Whitespace), IsNonEmpty), <<"_">>),
               {".", "_"})

(***************************************************************************)
(* Workbook ingestion (upload_file, lines 134-142).                        *)
(***************************************************************************)
\* A cell as pandas holds it once read_excel has inferred the column's
\* dtype: a column of ints with a missing cell is float64, so its ints are
\* floats; a column with any text is object and keeps each cell as it is.
ReadColumn(col) ==
    LET hasText == \E i \in 1..Len(col) : col[i].type = "str"
        hasNaN == \E i \in 1..Len(col) : col[i].type = "nan"
    IN  [i \in 1..Len(col) |->
            IF ~hasText /\ hasNaN /\ col[i].type = "int"
            THEN FloatV(col[i].n) ELSE col[i]]

\* Series.astype(str): every cell becomes the str object str(cell); the
\* missing value becomes the three-character string "nan".
astype_str(col) == [i \in 1..Len(col) |-> StrV(PyStr(col[i]))]

IsNotNa(v) == v.type # "nan"

\* Series.dropna(): drops the cells that are the missing value.
dropna(col) == SelectSeq(col, IsNotNa)

\* df.iloc[:, 3].astype(str).dropna().tolist()
column_d(sheet) == dropna(astype_str(ReadColumn(sheet.columns[4])))

\* The workbook_data dict built by the loop over xls.sheet_names: one item
\* per sheet, in sheet order (a dict keeps insertion order).
LoadWorkbook(sheets) ==
    [i \in 1..Len(sheets) |->
        [sheet_name |-> sheets[i].name,
         column_data |-> IF Len(sheets[i].columns) >= 4
                         THEN column_d(sheets[i])
                         ELSE <<>>]]

(***************************************************************************)
(* Lookup (find_in_all_sheets, lines 94-106).                              *)
(***************************************************************************)
NoDataLoaded ==
    <<"N", "o", " ", "d", "a", "t", "a", " ", "l", "o", "a", "d", "e", "d">>

NotFound == <<"N", "o", "t", " ", "F", "o", "u", "n", "d">>

\* The body of find_in_all_sheets once workbook_data has been read.
FindInWorkbook(workbook_data, search_value) ==
    LET search_str == PyStr(search_value)
        Hit(item) ==
            \E j \in 1..Len(item.column_data) :
                /\ PyStr(item.column_data[j]) # NanStr
                /\ PyStr(item.column_data[j]) = search_str
        hits == SelectSeq(workbook_data, Hit)
        found_sheets == [i \in 1..Len(hits) |-> hits[i].sheet_name]
    IN  IF found_sheets # <<>>
        THEN Join(found_sheets, <<",", " ">>)
        ELSE NotFound

(***************************************************************************)
(* Bulk CSID split (add_bulk_csids, lines 189-197).                        *)
(***************************************************************************)
\* The characters of the class [\s,;\n\t].
BulkDelims == Whitespace \cup {",", ";"}

StripToken(tokens) == [i \in 1..Len(tokens) |-> Strip(tokens[i])]

\* SplitCsids with the semicolon left out of the character class.
SplitCsidsNoSemicolon(csids_text) ==
    SelectSeq(StripToken(ReSplit(csids_text, Whitespace \cup {","})),
              IsNonEmpty)

\* csids = re.split(r'[\s,;\n\t]+', csids_text), then
\* [csid.strip() for csid in csids if csid.strip()]
SplitCsids(csids_text) ==
    SelectSeq(StripToken(ReSplit(csids_text, BulkDelims)), IsNonEmpty)

(***************************************************************************)
(* The server's world: browsers, session ids, worker threads, files.       *)
(***************************************************************************)
\* Browsers, each with its own cookie jar.
Clients == {"c1", "c2"}
\* The values str(uuid.uuid4()) returns.
SessionIds == {"u1", "u2"}
\* The worker threads of the threaded development server (app.run).
Threads == {"t1", "t2"}
\* session.get('session_id') of a browser that never visited '/'.
None == "None"

Col(a, b) == <<a, b>>

\* Sheets hold their data rows (read_excel takes the first row as header).
Workbook1 ==
    << [name |-> <<"S", "1">>,
        columns |-> << Col(IntV(7), IntV(8)), Col(IntV(7), IntV(8)),
                       Col(IntV(7), IntV(8)), Col(IntV(1), NaN) >>],
       [name |-> <<"S", "2">>,
        columns |-> << Col(IntV(7), IntV(8)), Col(IntV(7), IntV(8)),
                       Col(StrV(<<"A">>), IntV(1)) >>] >>

Workbook2 ==
    << [name |-> <<"S", "2">>,
        columns |-> << Col(IntV(7), IntV(8)), Col(IntV(7), IntV(8)),
                       Col(IntV(7), IntV(8)), Col(StrV(<<"A">>), IntV(1)),
                       Col(IntV(7), IntV(8)) >>],
       [name |-> <<"S", "1">>,
        columns |-> << Col(IntV(7), IntV(8)), Col(IntV(7), IntV(8)),
                       Col(IntV(7), IntV(8)), Col(NaN, StrV(<<"A">>)) >>] >>

\* request.files['file']: present is 'file' in request.files; readable is
\* whether pd.ExcelFile can parse the bytes.
File(filename, readable, sheets) ==
    [present |-> TRUE, filename |-> filename, readable |-> readable,
     sheets |-> sheets]

NoFile == [present |-> FALSE, filename |-> <<>>, readable |-> FALSE,
           sheets |-> <<>>]

Files ==
    { NoFile,
      File(<<>>, TRUE, Workbook1),
      File(<<"n", ".", "t", "x", "t">>, TRUE, Workbook1),
      File(<<"x", "l", "s">>, TRUE, Workbook1),
      File(<<"a", ".", "x", "l", "s", "x">>, TRUE, Workbook1),
      File(<<"a", ".", "x", "l", "s", "x">>, FALSE, <<>>),
      File(<<"B", " ", "1", ".", "X", "L", "S">>, TRUE, Workbook2) }

\* The JSON bodies sent to /add_csid, /add_bulk_csids and /refresh_csids.
CsidInputs == { <<" ">>, <<" ", "A">> }
BulkInputs == { <<",">>, <<"A", ",", " ", "1">> }
RefreshInputs == { <<IntV(1), StrV(NanStr)>> }

NoJson == [csid |-> <<>>, csids_text |-> <<>>, csids |-> <<>>]

\* A request as it arrives: route, the session cookie it carries, its file
\* part and its JSON body.
Request(route, cookie, file, json) ==
    [route |-> route, cookie |-> cookie, file |-> file, json |-> json]

NoRequest == Request("", None, NoFile, NoJson)

\* A response: status, the 'error' text of the JSON body, the exception the
\* handler raised (logged by handle_exception / the except clause), the
\* lookup results and the sheet names of a successful upload.
Response(status, error, exception, results, sheets) ==
    [status |-> status, error |-> error, exception |-> exception,
     results |-> results, sheets |-> sheets]

NoResponse == Response(0, "", "", <<>>, <<>>)
Ok(results, sheets) == Response(200, "", "", results, sheets)
Error(status, error, exception) == Response(status, error, exception, <<>>, <<>>)

\* Local variables of a handler between its steps.
NoLocal == [workbook_data |-> <<>>, csids |-> <<>>, results |-> <<>>,
            filename |-> <<>>]

VARIABLES
    workbook_storage,   \* the global dict: session id -> stored workbook
    session,            \* each browser's signed cookie: its session id or None
    now,                \* number of datetime.now() calls made so far
    pc,                 \* each thread's position in the handler it runs
    req,                \* each thread's current (or last) request
    local,              \* each thread's handler locals
    response            \* each thread's last response

vars == <<workbook_storage, session, now, pc, req, local, response>>

Init ==
    /\ workbook_storage = <<>>
    /\ session = [c \in Clients |-> None]
    /\ now = 0
    /\ pc = [t \in Threads |-> "idle"]
    /\ req = [t \in Threads |-> NoRequest]
    /\ local = [t \in Threads |-> NoLocal]
    /\ response = [t \in Threads |-> NoResponse]

\* The handler returns (or raises): the response is ready to be sent.
Finish(t, r, resp) ==
    /\ pc' = [pc EXCEPT ![t] = "done"]
    /\ req' = [req EXCEPT ![t] = r]
    /\ local' = [local EXCEPT ![t] = NoLocal]
    /\ response' = [response EXCEPT ![t] = resp]

\* The request goes on to its next step.
Goto(t, label, r, loc) ==
    /\ pc' = [pc EXCEPT ![t] = label]
    /\ req' = [req EXCEPT ![t] = r]
    /\ local' = [local EXCEPT ![t] = loc]
    /\ response' = [response EXCEPT ![t] = NoResponse]

\* after_request (log_response, lines 79-82): the response is logged and sent,
\* and the thread is free for the next request.
log_response(t) ==
    /\ pc[t] = "done"
    /\ pc' = [pc EXCEPT ![t] = "idle"]
    /\ req' = [req EXCEPT ![t] = NoRequest]
    /\ local' = [local EXCEPT ![t] = NoLocal]
    /\ response' = [response EXCEPT ![t] = NoResponse]
    /\ UNCHANGED <<workbook_storage, session, now>>

(***************************************************************************)
(* The store as a Python dict.                                             *)
(***************************************************************************)
\* d[key] = value
DictSet(d, key, value) ==
    [k \in DOMAIN d \cup {key} |-> IF k = key THEN value ELSE d[k]]

\* del d[key]
DictDel(d, key) == [k \in DOMAIN d \ {key} |-> d[k]]

(***************************************************************************)
(* GET / (index, lines 108-114).                                           *)
(***************************************************************************)
index(t, c) ==
    /\ pc[t] = "idle"
    /\ IF session[c] = None
       THEN \E uuid4 \in SessionIds \ {session[d] : d \in Clients} :
                /\ session' = [session EXCEPT ![c] = uuid4]
                /\ Finish(t, Request("index", None, NoFile, NoJson),
                          Ok(<<>>, <<>>))
       ELSE /\ UNCHANGED session
            /\ Finish(t, Request("index", session[c], NoFile, NoJson),
                      Ok(<<>>, <<>>))
    /\ UNCHANGED <<workbook_storage, now>>

(***************************************************************************)
(* POST /upload (upload_file, lines 116-162).                              *)
(***************************************************************************)
\* AllowedExtension with the dots left out of the suffixes.
AllowedExtensionNoDot(filename) ==
    \/ EndsWith(Lower(filename), <<"x", "l", "s", "x">>)
    \/ EndsWith(Lower(filename), <<"x", "l", "s">>)

\* file.filename.lower().endswith(('.xlsx', '.xls'))
AllowedExtension(filename) ==
    \/ EndsWith(Lower(filename), <<".", "x", "l", "s", "x">>)
    \/ EndsWith(Lower(filename), <<".", "x", "l", "s">>)

\* Uploads that passed validation and have not yet stored or failed.
UploadsInFlight ==
    Cardinality({u \in Threads : pc[u] \in {"upload_parse", "upload_store"}})

\* The request arrives and is validated (lines 119-130).
upload_file(t, c, f) ==
    /\ pc[t] = "idle"
    /\ LET r == Request("upload", session[c], f, NoJson)
       IN  IF ~f.present
           THEN Finish(t, r, Error(400, "No file uploaded", ""))
           ELSE IF f.filename = <<>>
           THEN Finish(t, r, Error(400, "No file selected", ""))
           ELSE IF ~AllowedExtension(f.filename)
           THEN Finish(t, r, Error(400,
                    "Please upload an Excel file (.xlsx or .xls)", ""))
           ELSE /\ now + UploadsInFlight < MaxTime
                /\ Goto(t, "upload_parse", r, NoLocal)
    /\ UNCHANGED <<workbook_storage, session, now>>

\* UploadParse with the session's old entry dropped when the parse fails.
UploadParseClobbers(t) ==
    /\ pc[t] = "upload_parse"
    /\ IF req[t].file.readable
       THEN /\ Goto(t, "upload_store", req[t],
                    [local[t] EXCEPT
                       !.workbook_data = LoadWorkbook(req[t].file.sheets)])
            /\ UNCHANGED workbook_storage
       ELSE /\ Finish(t, req[t],
                      Error(500, "Failed to load Excel file", "ParseError"))
            /\ workbook_storage' = DictDel(workbook_storage, req[t].cookie)
    /\ UNCHANGED <<session, now>>

\* The file is parsed into the local workbook_data (lines 132-142); a file
\* pandas cannot read raises, and the except clause answers 500 (160-162).
UploadParse(t) ==
    /\ pc[t] = "upload_parse"
    /\ IF req[t].file.readable
       THEN Goto(t, "upload_store", req[t],
                 [local[t] EXCEPT
                    !.workbook_data = LoadWorkbook(req[t].file.sheets)])
       ELSE Finish(t, req[t],
                   Error(500, "Failed to load Excel file", "ParseError"))
    /\ UNCHANGED <<workbook_storage, session, now>>

\* UploadStore updating an existing entry's data in place, keeping its old
\* filename and upload_time.
UploadStoreMerges(t) ==
    /\ pc[t] = "upload_store"
    /\ req[t].cookie # None
    /\ now' = now + 1
    /\ workbook_storage' =
         DictSet(workbook_storage, req[t].cookie,
                 IF req[t].cookie \in DOMAIN workbook_storage
                 THEN [workbook_storage[req[t].cookie] EXCEPT
                         !.data = local[t].workbook_data]
                 ELSE [data |-> local[t].workbook_data,
                       filename |-> secure_filename(req[t].file.filename),
                       upload_time |-> now + 1])
    /\ Finish(t, req[t],
              Ok(<<>>, [i \in 1..Len(local[t].workbook_data) |->
                          local[t].workbook_data[i].sheet_name]))
    /\ UNCHANGED session

\* The record is built and stored under the session id (lines 144-158);
\* session['session_id'] raises KeyError inside the try when the request
\* carries no session id.
UploadStore(t) ==
    /\ pc[t] = "upload_store"
    /\ IF req[t].cookie = None
       THEN /\ Finish(t, req[t],
                      Error(500, "Failed to load Excel file",
                            "KeyError: session_id"))
            /\ UNCHANGED <<workbook_storage, now>>
       ELSE /\ now' = now + 1
            /\ workbook_storage' =
                 DictSet(workbook_storage, req[t].cookie,
                         [data |-> local[t].workbook_data,
                          filename |-> secure_filename(req[t].file.filename),
                          upload_time |-> now + 1])
            /\ Finish(t, req[t],
                      Ok(<<>>, [i \in 1..Len(local[t].workbook_data) |->
                                  local[t].workbook_data[i].sheet_name]))
    /\ UNCHANGED session

(***************************************************************************)
(* The lookup routes (lines 164-240) and find_in_all_sheets (89-106).      *)
(***************************************************************************)
\* After validation: session['session_id'] raises KeyError outside any try
\* (handle_exception answers 500), else the first lookup starts.
StartLookups(t, r, csids) ==
    IF r.cookie = None
    THEN Finish(t, r, Error(500, "An unexpected error occurred",
                            "KeyError: session_id"))
    ELSE Goto(t, "find_check", r, [NoLocal EXCEPT !.csids = csids])

\* POST /add_csid up to its call of find_in_all_sheets (lines 167-175).
add_csid(t, c, csid) ==
    /\ pc[t] = "idle"
    /\ LET r == Request("add_csid", session[c], NoFile,
                        [NoJson EXCEPT !.csid = csid])
       IN  IF Strip(csid) = <<>>
           THEN Finish(t, r, Error(400, "CSID cannot be empty", ""))
           ELSE StartLookups(t, r, <<StrV(Strip(csid))>>)
    /\ UNCHANGED <<workbook_storage, session, now>>

\* POST /add_bulk_csids up to its first lookup (lines 188-203).
add_bulk_csids(t, c, text) ==
    /\ pc[t] = "idle"
    /\ LET r == Request("add_bulk_csids", session[c], NoFile,
                        [NoJson EXCEPT !.csids_text = text])
           csids_text == Strip(text)
           csids == SplitCsids(csids_text)
       IN  IF csids_text = <<>>
           THEN Finish(t, r, Error(400, "No CSIDs provided", ""))
           ELSE IF csids = <<>>
           THEN Finish(t, r, Error(400, "No valid CSIDs found", ""))
           ELSE StartLookups(t, r, [i \in 1..Len(csids) |-> StrV(csids[i])])
    /\ UNCHANGED <<workbook_storage, session, now>>

\* POST /refresh_csids up to its first lookup (lines 221-228).
refresh_csids(t, c, csids) ==
    /\ pc[t] = "idle"
    /\ LET r == Request("refresh_csids", session[c], NoFile,
                        [NoJson EXCEPT !.csids = csids])
       IN  IF csids = <<>>
           THEN Finish(t, r, Error(400, "No CSIDs to refresh", ""))
           ELSE StartLookups(t, r, csids)
    /\ UNCHANGED <<workbook_storage, session, now>>

\* find_in_all_sheets returns found_sheets for the current csid: the result
\* is appended and either the next lookup starts or the response is sent.
Return(t, found_sheets) ==
    LET results == Append(local[t].results,
                          [csid |-> Head(local[t].csids),
                           found_sheets |-> found_sheets])
    IN  IF Tail(local[t].csids) = <<>>
        THEN Finish(t, req[t], Ok(results, <<>>))
        ELSE Goto(t, "find_check", req[t],
                  [local[t] EXCEPT !.csids = Tail(local[t].csids),
                                   !.results = results])

\* FindCheck without the sentinel: a missing entry is answered "Not Found".
FindCheckNotFound(t) ==
    /\ pc[t] = "find_check"
    /\ IF req[t].cookie \notin DOMAIN workbook_storage
       THEN Return(t, NotFound)
       ELSE Goto(t, "find_read", req[t], local[t])
    /\ UNCHANGED <<workbook_storage, session, now>>

\* if session_id not in workbook_storage: return "No data loaded" (91-92)
FindCheck(t) ==
    /\ pc[t] = "find_check"
    /\ IF req[t].cookie \notin DOMAIN workbook_storage
       THEN Return(t, NoDataLoaded)
       ELSE Goto(t, "find_read", req[t], local[t])
    /\ UNCHANGED <<workbook_storage, session, now>>

\* workbook_data = workbook_storage[session_id]['data'] and the scan
\* (94-106); the subscript raises KeyError when the key is gone.
FindRead(t) ==
    /\ pc[t] = "find_read"
    /\ IF req[t].cookie \notin DOMAIN workbook_storage
       THEN Finish(t, req[t], Error(500, "An unexpected error occurred",
                                    "KeyError: workbook_storage"))
       ELSE Return(t, FindInWorkbook(workbook_storage[req[t].cookie].data,
                                     Head(local[t].csids)))
    /\ UNCHANGED <<workbook_storage, session, now>>

(***************************************************************************)
(* POST /reset_file (reset_file, lines 277-285).                           *)
(***************************************************************************)
ResetDone == Ok(<<>>, <<>>)

\* session_id = session.get('session_id'); if session_id in workbook_storage
reset_file(t, c) ==
    /\ pc[t] = "idle"
    /\ LET r == Request("reset_file", session[c], NoFile, NoJson)
       IN  IF r.cookie \in DOMAIN workbook_storage
           THEN Goto(t, "reset_get", r, NoLocal)
           ELSE Finish(t, r, ResetDone)
    /\ UNCHANGED <<workbook_storage, session, now>>

\* filename = workbook_storage[session_id].get('filename', 'unknown') (282)
ResetGet(t) ==
    /\ pc[t] = "reset_get"
    /\ IF req[t].cookie \notin DOMAIN workbook_storage
       THEN Finish(t, req[t], Error(500, "An unexpected error occurred",
                                    "KeyError: workbook_storage"))
       ELSE Goto(t, "reset_del", req[t],
                 [local[t] EXCEPT
                    !.filename = workbook_storage[req[t].cookie].filename])
    /\ UNCHANGED <<workbook_storage, session, now>>

\* ResetDel without the del statement.
ResetDelKeeps(t) ==
    /\ pc[t] = "reset_del"
    /\ pc' = [pc EXCEPT ![t] = "done"]
    /\ response' = [response EXCEPT ![t] = ResetDone]
    /\ UNCHANGED <<workbook_storage, req, local, session, now>>

\* ResetDel clearing the whole dict (workbook_storage.clear()).
ResetDelClearsAll(t) ==
    /\ pc[t] = "reset_del"
    /\ workbook_storage' = <<>>
    /\ pc' = [pc EXCEPT ![t] = "done"]
    /\ response' = [response EXCEPT ![t] = ResetDone]
    /\ UNCHANGED <<req, local, session, now>>

\* del workbook_storage[session_id] (283), the log line naming the file
\* (284), then the response (285).
ResetDel(t) ==
    /\ pc[t] = "reset_del"
    /\ IF req[t].cookie \notin DOMAIN workbook_storage
       THEN /\ Finish(t, req[t], Error(500, "An unexpected error occurred",
                                       "KeyError: workbook_storage"))
            /\ UNCHANGED workbook_storage
       ELSE /\ workbook_storage' = DictDel(workbook_storage, req[t].cookie)
            /\ pc' = [pc EXCEPT ![t] = "done"]
            /\ response' = [response EXCEPT ![t] = ResetDone]
            /\ UNCHANGED <<req, local>>
    /\ UNCHANGED <<session, now>>

(***************************************************************************)
(* The server: any free thread takes any request; any busy thread steps.   *)
(***************************************************************************)
Next ==
    \E t \in Threads :
        \/ \E c \in Clients : index(t, c)
        \/ \E c \in Clients, f \in Files : upload_file(t, c, f)
        \/ UploadParse(t)
        \/ UploadStore(t)
        \/ \E c \in Clients, csid \in CsidInputs : add_csid(t, c, csid)
        \/ \E c \in Clients, text \in BulkInputs : add_bulk_csids(t, c, text)
        \/ \E c \in Clients, csids \in RefreshInputs : refresh_csids(t, c, csids)
        \/ FindCheck(t)
        \/ FindRead(t)
        \/ \E c \in Clients : reset_file(t, c)
        \/ ResetGet(t)
        \/ ResetDel(t)
        \/ log_response(t)

Spec == Init /\ [][Next]_vars

(***************************************************************************)
(* The bulk split on every short request text: one browser, one thread.    *)
(***************************************************************************)
SplitAlphabet == {"A", "B", ",", ";", " ", "\n"}

\* The text of section 8's example: "A, B;C\nD".
ExampleText == <<"A", ",", " ", "B", ";", "C", "\n", "D">>

SplitTexts ==
    UNION {[1..n -> SplitAlphabet] : n \in 0..MaxLen} \cup {ExampleText}

\* The browser posts one of the texts to /add_bulk_csids.
BulkRequest ==
    /\ pc["t1"] = "idle"
    /\ \E text \in SplitTexts : add_bulk_csids("t1", "c1", text)

NextSplit ==
    \/ index("t1", "c1")
    \/ BulkRequest
    \/ FindCheck("t1")
    \/ log_response("t1")

SpecSplit == Init /\ [][NextSplit]_vars

(***************************************************************************)
(* Vocabulary of the properties.                                           *)
(***************************************************************************)
\* Thread t takes a step.
Stepped(t) == pc'[t] # pc[t] \/ local'[t] # local[t]

\* The lookup results thread t holds after its step.
ResultsAfter(t) ==
    IF pc'[t] = "done" THEN response'[t].results ELSE local'[t].results

LastResultAfter(t) == ResultsAfter(t)[Len(ResultsAfter(t))]

LookupRoutes == {"add_csid", "add_bulk_csids", "refresh_csids"}

\* Session s's entry differs after the step (added, removed or replaced).
EntryChanged(s) ==
    \/ (s \in DOMAIN workbook_storage) # (s \in DOMAIN workbook_storage')
    \/ /\ s \in DOMAIN workbook_storage
       /\ s \in DOMAIN workbook_storage'
       /\ workbook_storage'[s] # workbook_storage[s]

\* Thread t's step is the successful store of an upload for session s.
StoresFor(t, s) ==
    /\ pc[t] = "upload_store"
    /\ pc'[t] = "done"
    /\ req[t].cookie = s
    /\ response'[t].status = 200

(***************************************************************************)
(* C1. A failed upload never changes the session store: every step of an   *)
(* /upload request other than its successful store, and so the step that   *)
(* ends it with 500 'Failed to load Excel file', leaves workbook_storage    *)
(* (every entry's data, filename and upload_time, and every absence) as it  *)
(* was.                                                                    *)
(***************************************************************************)
C1_FailedUploadKeepsStore ==
    [][\A t \in Threads :
         ( /\ Stepped(t)
           /\ req'[t].route = "upload"
           /\ ~(pc'[t] = "done" /\ response'[t].status = 200) )
         => workbook_storage' = workbook_storage]_vars

\* An upload has failed in parsing for a session that has a stored workbook.
C1_Witness ==
    \E t \in Threads :
        /\ pc[t] = "done"
        /\ req[t].route = "upload"
        /\ response[t].status = 500
        /\ response[t].exception = "ParseError"
        /\ req[t].cookie \in DOMAIN workbook_storage

(***************************************************************************)
(* C3. A lookup for a session with no entry in workbook_storage returns    *)
(* 'No data loaded' for the value looked up, whichever of the three routes *)
(* called it.                                                              *)
(***************************************************************************)
C3_NoDataLoaded ==
    [][\A t \in Threads :
         ( /\ pc[t] = "find_check"
           /\ Stepped(t)
           /\ req[t].cookie \notin DOMAIN workbook_storage )
         => /\ req[t].route \in LookupRoutes
            /\ ResultsAfter(t) # <<>>
            /\ LastResultAfter(t) = [csid |-> Head(local[t].csids),
                                     found_sheets |-> NoDataLoaded]
            /\ pc'[t] = "done" => response'[t].status = 200]_vars

\* Two of the call sites have each answered 'No data loaded' throughout.
C3_Witness ==
    \E t, u \in Threads :
        /\ pc[t] = "done" /\ pc[u] = "done"
        /\ req[t].route = "add_csid"
        /\ req[u].route \in {"add_bulk_csids", "refresh_csids"}
        /\ Len(response[t].results) = 1
        /\ Len(response[u].results) = 2
        /\ \A i \in 1..Len(response[t].results) :
               response[t].results[i].found_sheets = NoDataLoaded
        /\ \A i \in 1..Len(response[u].results) :
               response[u].results[i].found_sheets = NoDataLoaded

(***************************************************************************)
(* C4. When /reset_file ends for a session, the session has no entry; an    *)
(* absent entry stays absent until an upload for that session stores one;  *)
(* while it is absent every lookup for the session returns 'No data        *)
(* loaded'; and a reset that finds no entry answers success and leaves the *)
(* store unchanged.                                                        *)
(***************************************************************************)
C4_ResetRemoves ==
    [][ /\ \A t \in Threads :
             ( /\ Stepped(t)
               /\ req'[t].route = "reset_file"
               /\ pc'[t] = "done" )
             => req'[t].cookie \notin DOMAIN workbook_storage'
        /\ \A s \in SessionIds :
             (s \notin DOMAIN workbook_storage /\ s \in DOMAIN workbook_storage')
             => \E t \in Threads : StoresFor(t, s)
        /\ \A t \in Threads :
             ( /\ pc[t] = "find_check"
               /\ Stepped(t)
               /\ req[t].cookie \notin DOMAIN workbook_storage )
             => LastResultAfter(t).found_sheets = NoDataLoaded
        /\ \A t \in Threads :
             ( /\ pc[t] = "idle"
               /\ Stepped(t)
               /\ req'[t].route = "reset_file"
               /\ req'[t].cookie \notin DOMAIN workbook_storage )
             => /\ pc'[t] = "done"
                /\ response'[t] = ResetDone
                /\ workbook_storage' = workbook_storage ]_vars

\* A reset has deleted a stored workbook (it logged the file's name) and a
\* later lookup for the same session is answering 'No data loaded'.
C4_Witness ==
    \E t, u \in Threads :
        /\ pc[t] = "done"
        /\ req[t].route = "reset_file"
        /\ response[t].status = 200
        /\ local[t].filename # <<>>
        /\ pc[u] = "done"
        /\ req[u].route \in LookupRoutes
        /\ req[u].cookie = req[t].cookie
        /\ response[u].status = 200
        /\ response[u].results[1].found_sheets = NoDataLoaded
        /\ req[t].cookie \notin DOMAIN workbook_storage

(***************************************************************************)
(* C5. Every change that leaves a session with an entry is the store step  *)
(* of one successful upload for that session, and the entry is then that   *)
(* upload's whole record: the data extracted from its file, its secured    *)
(* filename and its own upload time; so the entry is always the record of  *)
(* the upload that stored last, never a mixture of two uploads.            *)
(***************************************************************************)
C5_LastWriteWins ==
    [][\A s \in SessionIds :
         (s \in DOMAIN workbook_storage' /\ EntryChanged(s))
         => \E t \in Threads :
              /\ StoresFor(t, s)
              /\ now' = now + 1
              /\ workbook_storage'[s] =
                   [data |-> LoadWorkbook(req[t].file.sheets),
                    filename |-> secure_filename(req[t].file.filename),
                    upload_time |-> now']]_vars

\* Only one browser has a session, two uploads have stored for it, and the
\* entry is the second upload's record.
C5_Witness ==
    \E c \in Clients :
        /\ session[c] # None
        /\ \A d \in Clients \ {c} : session[d] = None
        /\ session[c] \in DOMAIN workbook_storage
        /\ workbook_storage[session[c]].upload_time = 2
        /\ workbook_storage[session[c]].filename = <<"B", "_", "1", ".", "X", "L", "S">>
        /\ workbook_storage[session[c]].data = LoadWorkbook(Workbook2)

\* A file part whose name is a spreadsheet name, in the words of the claim.
HasSpreadsheetName(f) ==
    /\ f.present
    /\ f.filename # <<>>
    /\ \E suffix \in { <<".", "x", "l", "s", "x">>, <<".", "x", "l", "s">> } :
           /\ Len(f.filename) >= Len(suffix)
           /\ \A i \in 1..Len(suffix) :
                  LowerChar(f.filename[Len(f.filename) - Len(suffix) + i])
                      = suffix[i]

(***************************************************************************)
(* C6. An /upload request with no file part, an empty filename, or a       *)
(* filename that does not end, letter case aside, in '.xlsx' or '.xls' is   *)
(* answered 400 in its first step, before the parse step, and leaves       *)
(* workbook_storage unchanged; only spreadsheet names reach the parse.     *)
(***************************************************************************)
C6_BadUploadRejected ==
    [][\A t \in Threads :
         /\ ( /\ pc[t] = "idle"
              /\ Stepped(t)
              /\ req'[t].route = "upload"
              /\ ~HasSpreadsheetName(req'[t].file) )
            => /\ pc'[t] = "done"
               /\ response'[t].status = 400
               /\ workbook_storage' = workbook_storage
         /\ pc'[t] \in {"upload_parse", "upload_store"}
            => HasSpreadsheetName(req'[t].file)]_vars

\* A file with a wrong extension has been refused while the session has a
\* stored workbook.
C6_Witness ==
    \E t \in Threads :
        /\ pc[t] = "done"
        /\ req[t].route = "upload"
        /\ req[t].file.present
        /\ req[t].file.filename # <<>>
        /\ response[t].status = 400
        /\ req[t].cookie \in DOMAIN workbook_storage

(***************************************************************************)
(* C8. Requests for different sessions never conflict: a step changes a    *)
(* session's entry only if it is a step of a request carrying that         *)
(* session's id, and a lookup's answer is computed from the entry of the   *)
(* request's own session alone.                                            *)
(***************************************************************************)
C8_SessionsIsolated ==
    [][ /\ \A b \in SessionIds :
             EntryChanged(b)
             => \E t \in Threads : Stepped(t) /\ req[t].cookie = b
        /\ \A t \in Threads :
             ( /\ pc[t] = "find_read"
               /\ Stepped(t)
               /\ req[t].cookie \in DOMAIN workbook_storage )
             => LastResultAfter(t).found_sheets =
                  FindInWorkbook(workbook_storage[req[t].cookie].data,
                                 Head(local[t].csids)) ]_vars

\* A reset has deleted one session's workbook while the other session's
\* workbook is stored.
C8_Witness ==
    \E t \in Threads :
        /\ pc[t] = "done"
        /\ req[t].route = "reset_file"
        /\ response[t].status = 200
        /\ local[t].filename # <<>>
        /\ req[t].cookie \notin DOMAIN workbook_storage
        /\ DOMAIN workbook_storage # {}

\* The answer as the claim states it.
ClaimedLookup(workbook_data, v) ==
    LET Holds(item) ==
            \E j \in 1..Len(item.column_data) :
                PyStr(item.column_data[j]) = PyStr(v)
        holders == SelectSeq(workbook_data, Holds)
        names == [i \in 1..Len(holders) |-> holders[i].sheet_name]
    IN  IF names = <<>> THEN NotFound ELSE Join(names, <<",", " ">>)

(***************************************************************************)
(* C2. For a session with a loaded workbook, find_in_all_sheets returns    *)
(* the names of exactly the sheets whose stored column holds an entry      *)
(* equal to str(v), joined with ', ' in sheet order, and 'Not Found' if    *)
(* and only if no sheet holds such an entry.                               *)
(***************************************************************************)
C2_ExactSheets ==
    [][\A t \in Threads :
         ( /\ pc[t] = "find_read"
           /\ Stepped(t)
           /\ req[t].cookie \in DOMAIN workbook_storage )
         => LastResultAfter(t).found_sheets =
              ClaimedLookup(workbook_storage[req[t].cookie].data,
                            Head(local[t].csids))]_vars

\* The stored items as the claim states them.
ClaimedExtract(sheets) ==
    [i \in 1..Len(sheets) |->
        [sheet_name |-> sheets[i].name,
         column_data |->
            IF Len(sheets[i].columns) >= 4
            THEN LET kept == SelectSeq(ReadColumn(sheets[i].columns[4]), IsNotNa)
                 IN  [j \in 1..Len(kept) |-> StrV(PyStr(kept[j]))]
            ELSE <<>>]]

(***************************************************************************)
(* C7. After a successful upload the sequence stored for a sheet with at   *)
(* least four columns is the string form of its fourth column's cells in   *)
(* row order with the missing-value cells dropped, and the sequence stored *)
(* for a sheet with fewer than four columns is empty.                      *)
(***************************************************************************)
C7_MissingCellsDropped ==
    [][\A t \in Threads, s \in SessionIds :
         StoresFor(t, s)
         => workbook_storage'[s].data = ClaimedExtract(req[t].file.sheets)]_vars

\* The tokens thread t is about to look up, as strings.
TokensOf(t) == [i \in 1..Len(local[t].csids) |-> PyStr(local[t].csids[i])]

JoinDelims == {<<d>> : d \in BulkDelims} \cup {<<",", " ">>, <<";", "\n">>}

(***************************************************************************)
(* C9. The bulk split is idempotent under re-splitting its own output: the *)
(* tokens /add_bulk_csids looks up are non-empty and hold no delimiter;    *)
(* joined with any delimiter and split again they give the same tokens in  *)
(* the same order; and "A, B;C\nD" gives A, B, C, D.                       *)
(***************************************************************************)
C9_SplitIdempotent ==
    \A t \in Threads :
        ( /\ pc[t] = "find_check"
          /\ req[t].route = "add_bulk_csids"
          /\ local[t].results = <<>> )
        => /\ TokensOf(t) # <<>>
           /\ \A i \in 1..Len(TokensOf(t)) :
                /\ TokensOf(t)[i] # <<>>
                /\ \A j \in 1..Len(TokensOf(t)[i]) :
                       TokensOf(t)[i][j] \notin BulkDelims
           /\ \A sep \in JoinDelims :
                SplitCsids(Strip(Join(TokensOf(t), sep))) = TokensOf(t)
           /\ req[t].json.csids_text = ExampleText
              => TokensOf(t) = << <<"A">>, <<"B">>, <<"C">>, <<"D">> >>

\* The example text has been split into its four tokens.
C9_Witness ==
    /\ pc["t1"] = "find_check"
    /\ req["t1"].json.csids_text = ExampleText
    /\ Len(local["t1"].csids) = 4
    /\ local["t1"].results = <<>>

(***************************************************************************)
(* C10. Under any interleaving of lookups, uploads and resets for one      *)
(* session, no lookup and no reset fails with an unhandled error: none     *)
(* ends with the KeyError raised by workbook_storage[session_id] or by del *)
(* workbook_storage[session_id].                                           *)
(***************************************************************************)
C10_NoUnhandledError ==
    \A t \in Threads :
        ( /\ pc[t] = "done"
          /\ req[t].route \in LookupRoutes \cup {"reset_file"} )
        => response[t].exception # "KeyError: workbook_storage"

=============================================================================
